---------------------------- MODULE Spec2Model ----------------------------
(***************************************************************************)
(* Personal finance tracker (src/finance_tracker.py): the transaction and  *)
(* budget stores kept in two CSV files, the validation of Transaction and  *)
(* Budget, and the aggregations computed from the loaded records.          *)
(*                                                                         *)
(* Text is a sequence of one-character strings, so that parsing            *)
(* (strptime, float), formatting (repr of a float) and str.lower are       *)
(* computed character by character.  A Python float is an integer number   *)
(* of tenths (exact for the sample amounts); a ratio of two floats is a    *)
(* pair [num, den] compared by cross-multiplication.                       *)
(***************************************************************************)
EXTENDS Integers, Sequences, FiniteSets, TLC

(***************************************************************************)
(* Bounds of the model.                                                    *)
(***************************************************************************)
\* add_transaction calls that reach the file (fresh uuids handed out)
MaxAdds == 2
\* records of an externally prepared file (SpecRaw)
MaxRaw == 2
\* transactions of a ledger the reports are computed from (SpecLedger)
MaxLedger == 3

(***************************************************************************)
(* Python values.                                                          *)
(***************************************************************************)
\* Python's None, as a field value (no text holds a multi-character element)
None == <<"None">>

\* a str argument
PyStr(t) == [kind |-> "str", text |-> t, val |-> 0]

\* a float argument, in tenths
PyFloat(v) == [kind |-> "float", text |-> <<>>, val |-> v]

\* a None argument
PyNone == [kind |-> "None", text |-> <<>>, val |-> 0]

\* a field of a csv.DictReader row (a str, or None for a field the row lacks)
PyField(t) == IF t = None THEN PyNone ELSE PyStr(t)

Digits == <<"0", "1", "2", "3", "4", "5", "6", "7", "8", "9">>

DigitSet == {Digits[i] : i \in 1..10}

DigitValue == [c \in DigitSet |-> (CHOOSE i \in 1..10 : Digits[i] = c) - 1]

IsDigit(c) == c \in DigitSet

DigitVal(c) == DigitValue[c]

IsDigits(s) == \A i \in 1..Len(s) : IsDigit(s[i])

RECURSIVE DigitsVal(_)
\* the number a digit string denotes (0 for the empty string)
DigitsVal(s) ==
    IF s = <<>> THEN 0
    ELSE 10 * DigitsVal(SubSeq(s, 1, Len(s) - 1)) + DigitVal(s[Len(s)])

RECURSIVE NatText(_)
\* the decimal digits of a natural number
NatText(n) ==
    IF n < 10 THEN <<Digits[n + 1]>>
    ELSE NatText(n \div 10) \o <<Digits[(n % 10) + 1]>>

UpperCase == <<"A", "B", "C", "D", "E", "F", "G", "H", "I", "J", "K", "L", "M",
               "N", "O", "P", "Q", "R", "S", "T", "U", "V", "W", "X", "Y", "Z">>

LowerCase == <<"a", "b", "c", "d", "e", "f", "g", "h", "i", "j", "k", "l", "m",
               "n", "o", "p", "q", "r", "s", "t", "u", "v", "w", "x", "y", "z">>

UpperSet == {UpperCase[k] : k \in 1..26}

LowerOf == [c \in UpperSet |-> LowerCase[CHOOSE k \in 1..26 : UpperCase[k] = c]]

\* str.lower() on the ASCII letters
str_lower(s) ==
    [i \in 1..Len(s) |-> IF s[i] \in UpperSet THEN LowerOf[s[i]] ELSE s[i]]

(***************************************************************************)
(* float(x): a str is parsed as [sign] digits ["." [digit]] or             *)
(* [sign] "." digit; every other text of the model's alphabet raises       *)
(* ValueError; None raises TypeError.  The value is in tenths.             *)
(***************************************************************************)
float_str(t) ==
    LET signed == t # <<>> /\ t[1] \in {"-", "+"}
        body   == IF signed THEN Tail(t) ELSE t
        dot    == IF \E i \in 1..Len(body) : body[i] = "."
                  THEN CHOOSE i \in 1..Len(body) :
                         body[i] = "." /\ \A j \in 1..(i - 1) : body[j] # "."
                  ELSE 0
        ip     == IF dot = 0 THEN body ELSE SubSeq(body, 1, dot - 1)
        fp     == IF dot = 0 THEN <<>> ELSE SubSeq(body, dot + 1, Len(body))
        ok     == /\ IsDigits(ip) /\ IsDigits(fp)
                  /\ Len(ip) + Len(fp) > 0
                  /\ Len(fp) <= 1
        mag    == 10 * DigitsVal(ip) + DigitsVal(fp)
    IN  IF ok
        THEN [exc |-> "none",
              val |-> IF signed /\ t[1] = "-" THEN 0 - mag ELSE mag]
        ELSE [exc |-> "ValueError", val |-> 0]

float(x) ==
    CASE x.kind = "float" -> [exc |-> "none", val |-> x.val]
      [] x.kind = "str"   -> float_str(x.text)
      [] OTHER            -> [exc |-> "TypeError", val |-> 0]

\* repr(float): digits "." digit
float_repr(v) ==
    LET mag == IF v < 0 THEN 0 - v ELSE v
    IN  (IF v < 0 THEN <<"-">> ELSE <<>>)
          \o NatText(mag \div 10) \o <<".">> \o NatText(mag % 10)

\* what csv.writer writes for a value: str(value), and "" for None
csv_str(x) ==
    CASE x.kind = "float" -> float_repr(x.val)
      [] x.kind = "str"   -> x.text
      [] OTHER            -> <<>>

(***************************************************************************)
(* datetime.strptime(date, "%Y-%m-%d"): the format's regular expression    *)
(* \d\d\d\d - (1[0-2]|0[1-9]|[1-9]) - (3[01]|[12]\d|0[1-9]|[1-9]| [1-9]),  *)
(* matched as a prefix, alternatives in order; then "unconverted data      *)
(* remains", then the calendar check of datetime(year, month, day).        *)
(***************************************************************************)
At(s, i) == IF i >= 1 /\ i <= Len(s) THEN s[i] ELSE ""

\* the length of the month field matched at position i (0: no match)
MonthLen(s, i) ==
    IF At(s, i) = "1" /\ At(s, i + 1) \in {"0", "1", "2"} THEN 2
    ELSE IF At(s, i) = "0" /\ IsDigit(At(s, i + 1)) /\ At(s, i + 1) # "0" THEN 2
    ELSE IF IsDigit(At(s, i)) /\ At(s, i) # "0" THEN 1
    ELSE 0

\* the length of the day field matched at position i (0: no match)
DayLen(s, i) ==
    IF At(s, i) = "3" /\ At(s, i + 1) \in {"0", "1"} THEN 2
    ELSE IF At(s, i) \in {"1", "2"} /\ IsDigit(At(s, i + 1)) THEN 2
    ELSE IF At(s, i) = "0" /\ IsDigit(At(s, i + 1)) /\ At(s, i + 1) # "0" THEN 2
    ELSE IF IsDigit(At(s, i)) /\ At(s, i) # "0" THEN 1
    ELSE IF At(s, i) = " " /\ IsDigit(At(s, i + 1)) /\ At(s, i + 1) # "0" THEN 2
    ELSE 0

IsLeap(y) == (y % 4 = 0 /\ y % 100 # 0) \/ y % 400 = 0

DaysInMonth(y, m) ==
    IF m = 2 THEN (IF IsLeap(y) THEN 29 ELSE 28)
    ELSE IF m \in {4, 6, 9, 11} THEN 30 ELSE 31

FieldVal(s) == DigitsVal(SelectSeq(s, IsDigit))

strptime(date) ==
    LET bad == [exc |-> "ValueError", year |-> 0, month |-> 0, day |-> 0]
    IN  IF date = None
        THEN [exc |-> "TypeError", year |-> 0, month |-> 0, day |-> 0]
        ELSE IF ~(\A i \in 1..4 : IsDigit(At(date, i))) \/ At(date, 5) # "-"
        THEN bad
        ELSE LET ml == MonthLen(date, 6)
             IN  IF ml = 0 \/ At(date, 6 + ml) # "-"
                 THEN bad
                 ELSE LET dl == DayLen(date, 7 + ml)
                          y  == DigitsVal(SubSeq(date, 1, 4))
                          m  == FieldVal(SubSeq(date, 6, 5 + ml))
                          d  == FieldVal(SubSeq(date, 7 + ml, 6 + ml + dl))
                      IN  IF dl = 0 \/ Len(date) # 6 + ml + dl
                          THEN bad
                          ELSE IF y < 1 \/ d > DaysInMonth(y, m)
                          THEN bad
                          ELSE [exc |-> "none", year |-> y, month |-> m, day |-> d]


(***************************************************************************)
(* Transaction and Budget.  A constructor yields [exc, obj]: exc is        *)
(* "none" or the name of the exception it raises.                          *)
(***************************************************************************)
T_income == <<"i", "n", "c", "o", "m", "e">>

T_expense == <<"e", "x", "p", "e", "n", "s", "e">>

\* Transaction._validate_inputs: the exception raised, "none" if none
Transaction_validate_inputs(amount, date, trans_type) ==
    LET d == strptime(date)
        a == float(amount)
    IN  IF d.exc # "none" THEN d.exc
        ELSE IF a.exc = "TypeError" THEN "TypeError"
        ELSE IF a.exc = "ValueError" \/ a.val <= 0 THEN "ValueError"
        ELSE IF trans_type = None THEN "AttributeError"
        ELSE IF str_lower(trans_type) \notin {T_income, T_expense} THEN "ValueError"
        ELSE "none"

NoTransaction ==
    [trans_id |-> <<>>, date |-> <<>>, amount |-> 0, category |-> <<>>,
     trans_type |-> <<>>, description |-> <<>>]

\* Transaction.__init__
Transaction(trans_id, date, amount, category, trans_type, description) ==
    LET e == Transaction_validate_inputs(amount, date, trans_type)
    IN  IF e # "none" THEN [exc |-> e, obj |-> NoTransaction]
        ELSE [exc |-> "none",
              obj |-> [trans_id    |-> trans_id,
                       date        |-> date,
                       amount      |-> float(amount).val,
                       category    |-> category,
                       trans_type  |-> str_lower(trans_type),
                       description |-> description]]

\* Budget._validate_inputs
Budget_validate_inputs(limit) ==
    LET l == float(limit)
    IN  IF l.exc = "TypeError" THEN "TypeError"
        ELSE IF l.exc = "ValueError" \/ l.val <= 0 THEN "ValueError"
        ELSE "none"

NoBudget == [category |-> <<>>, limit |-> 0]

\* Budget.__init__
Budget(category, limit) ==
    LET e == Budget_validate_inputs(limit)
    IN  IF e # "none" THEN [exc |-> e, obj |-> NoBudget]
        ELSE [exc |-> "none",
              obj |-> [category |-> category, limit |-> float(limit).val]]

RECURSIVE SumAmounts(_)
\* sum([e._amount for e in ...])
SumAmounts(ts) ==
    IF ts = <<>> THEN 0 ELSE Head(ts).amount + SumAmounts(Tail(ts))

\* a quotient num/den of two floats
Ratio(n, d) == [num |-> n, den |-> d]

RatioLeq(a, b) == a.num * b.den <= b.num * a.den

RatioEq(a, b) == a.num * b.den = b.num * a.den

\* min(100, percentage)
Min100(p) == IF RatioLeq(Ratio(100, 1), p) THEN Ratio(100, 1) ELSE p

\* max(0, x)
Max0(x) == IF x > 0 THEN x ELSE 0

\* (faulty variant) categories compared without regard to case
SameCategoryAnyCase(b, e) == str_lower(e.category) = str_lower(b.category)

\* e._category == self._category
SameCategory(b, e) == e.category = b.category

\* Budget.check_limit
check_limit(self, expenses) ==
    LET mine       == SelectSeq(expenses, LAMBDA e : SameCategory(self, e))
        total      == SumAmounts(mine)
        percentage == IF self.limit > 0
                      THEN Ratio(total * 100, self.limit)
                      ELSE Ratio(0, 1)
    IN  [exceeded   |-> total > self.limit,
         total      |-> total,
         remaining  |-> Max0(self.limit - total),
         percentage |-> Min100(percentage)]

(***************************************************************************)
(* The CSV files.  A file is [exists, rows]: rows are the csv rows in file *)
(* order, the header row first, each a sequence of field texts.            *)
(***************************************************************************)
K_id == <<"i", "d">>

K_date == <<"d", "a", "t", "e">>

K_amount == <<"a", "m", "o", "u", "n", "t">>

K_category == <<"c", "a", "t", "e", "g", "o", "r", "y">>

K_type == <<"t", "y", "p", "e">>

K_description == <<"d", "e", "s", "c", "r", "i", "p", "t", "i", "o", "n">>

K_limit == <<"l", "i", "m", "i", "t">>

DATA_HEADER == <<K_id, K_date, K_amount, K_category, K_type, K_description>>

BUDGET_HEADER == <<K_category, K_limit>>

AbsentFile == [exists |-> FALSE, rows |-> <<>>]

\* init_files: a missing file is created holding its header row
init_files(file, header) ==
    IF file.exists THEN file ELSE [exists |-> TRUE, rows |-> <<header>>]

\* csv.DictReader: row[key]; KeyError when the header row lacks the key,
\* None (restval) when the row is shorter than the header row
row_get(fieldnames, row, key) ==
    LET hits == {i \in 1..Len(fieldnames) : fieldnames[i] = key}
        i    == CHOOSE k \in hits : \A j \in hits : j <= k
    IN  IF hits = {} THEN [exc |-> "KeyError", val |-> None]
        ELSE IF i <= Len(row) THEN [exc |-> "none", val |-> row[i]]
        ELSE [exc |-> "none", val |-> None]

\* row.get('description', '')
row_get_default(fieldnames, row, key, default) ==
    LET g == row_get(fieldnames, row, key)
    IN  IF g.exc = "KeyError" THEN default ELSE g.val

\* the Transaction(...) call of load_transactions on one row
row_transaction(fieldnames, row) ==
    LET id == row_get(fieldnames, row, K_id)
        dt == row_get(fieldnames, row, K_date)
        am == row_get(fieldnames, row, K_amount)
        ca == row_get(fieldnames, row, K_category)
        ty == row_get(fieldnames, row, K_type)
    IN  IF \E g \in {id, dt, am, ca, ty} : g.exc = "KeyError"
        THEN [exc |-> "KeyError", obj |-> NoTransaction]
        ELSE Transaction(id.val, dt.val, PyField(am.val), ca.val, ty.val,
                         row_get_default(fieldnames, row, K_description, <<>>))

\* the Budget(...) call of load_budgets on one row
row_budget(fieldnames, row) ==
    LET ca == row_get(fieldnames, row, K_category)
        li == row_get(fieldnames, row, K_limit)
    IN  IF ca.exc = "KeyError" \/ li.exc = "KeyError"
        THEN [exc |-> "KeyError", obj |-> NoBudget]
        ELSE Budget(ca.val, PyField(li.val))

RECURSIVE load_rows(_, _, _, _, _)
\* the reader loop of load_transactions and load_budgets: a row whose
\* constructor raises ValueError is skipped with one warning, any other
\* exception leaves the loop and the function
load_rows(make(_, _), fieldnames, rows, acc, warnings) ==
    IF rows = <<>>
    THEN [exc |-> "none", value |-> acc, warnings |-> warnings]
    ELSE IF Head(rows) = <<>>
    THEN load_rows(make, fieldnames, Tail(rows), acc, warnings)
    ELSE LET r == make(fieldnames, Head(rows))
         IN  IF r.exc = "none"
             THEN load_rows(make, fieldnames, Tail(rows),
                            Append(acc, r.obj), warnings)
             ELSE IF r.exc = "ValueError"
             THEN load_rows(make, fieldnames, Tail(rows), acc, warnings + 1)
             ELSE [exc |-> r.exc, value |-> <<>>, warnings |-> warnings]

\* the body of a load, make being the constructor call on one row:
\* FileNotFoundError gives [], an empty file no rows
load_file(make(_, _), file) ==
    IF ~file.exists \/ file.rows = <<>>
    THEN [exc |-> "none", value |-> <<>>, warnings |-> 0]
    ELSE load_rows(make, Head(file.rows), Tail(file.rows), <<>>, 0)

\* TransactionManager.load_transactions
load_transactions(file) == load_file(row_transaction, file)

\* BudgetManager.load_budgets
load_budgets(file) == load_file(row_budget, file)

\* (faulty variant) the category and the type written in each other's column
added_row_swapped(trans_id, date, amount, category, trans_type, description) ==
    <<trans_id, date, csv_str(amount), trans_type, category, description>>

\* the row add_transaction writes: the arguments as given
added_row(trans_id, date, amount, category, trans_type, description) ==
    <<trans_id, date, csv_str(amount), category, trans_type, description>>

\* the row delete_transaction writes for a loaded Transaction
transaction_row(t) ==
    <<csv_str(PyField(t.trans_id)), csv_str(PyField(t.date)),
      csv_str(PyFloat(t.amount)), csv_str(PyField(t.category)),
      csv_str(PyField(t.trans_type)), csv_str(PyField(t.description))>>

\* the row set_budget and delete_budget write for a Budget
budget_row(b) == <<csv_str(PyField(b.category)), csv_str(PyFloat(b.limit))>>

\* one row per Transaction, in order
transaction_rows(ts) == [i \in 1..Len(ts) |-> transaction_row(ts[i])]

\* one row per Budget, in order
budget_rows(bs) == [i \in 1..Len(bs) |-> budget_row(bs[i])]

(***************************************************************************)
(* A write through file_handler.  fault = 0: no I/O error.  fault = 1:     *)
(* open() raises, the file is untouched.  fault = k + 1: open() succeeded  *)
(* and the k-th writerow is the first whose data does not reach the file.  *)
(***************************************************************************)
\* file_handler(file, 'w') followed by the writerow calls for `rows`
write_all(file, rows, fault) ==
    IF fault = 0 \/ fault > Len(rows) + 1
    THEN [exc |-> "none", file |-> [exists |-> TRUE, rows |-> rows]]
    ELSE IF fault = 1
    THEN [exc |-> "IOError", file |-> file]
    ELSE [exc  |-> "IOError",
          file |-> [exists |-> TRUE, rows |-> SubSeq(rows, 1, fault - 2)]]

\* (faulty variant) the file opened in mode 'w': the row replaces the file
append_row_overwriting(file, row, fault) ==
    IF fault = 1
    THEN [exc |-> "IOError", file |-> file]
    ELSE [exc  |-> IF fault = 2 THEN "IOError" ELSE "none",
          file |-> [exists |-> TRUE,
                    rows   |-> IF fault = 2 THEN <<>> ELSE <<row>>]]

\* file_handler(file, 'a') followed by one writerow
append_row(file, row, fault) ==
    IF fault = 0 \/ fault > 2
    THEN [exc  |-> "none",
          file |-> [exists |-> TRUE, rows |-> Append(file.rows, row)]]
    ELSE IF fault = 1
    THEN [exc |-> "IOError", file |-> file]
    ELSE [exc |-> "IOError", file |-> [exists |-> TRUE, rows |-> file.rows]]

(***************************************************************************)
(* The state: the two files, the uuids handed out, and the last call of a  *)
(* FinanceTracker method with its outcome and the files as they were       *)
(* before it.                                                              *)
(***************************************************************************)
VARIABLES
    dataFile,    \* data/transactions.csv
    budgetFile,  \* data/budgets.csv
    uuidCount,   \* uuid4() values written so far
    last,        \* [op, args, exc, value, warnings] of the last call
    prevData,    \* dataFile before the last call
    prevBudget,  \* budgetFile before the last call
    repeat,      \* the last call is a delete_transaction and so was, with
                 \* the same id, the call before it
    pending      \* a delete_transaction that has loaded the transactions and
                 \* not yet rewritten the file (calls that overlap only)

vars ==
    <<dataFile, budgetFile, uuidCount, last, prevData, prevBudget, repeat,
      pending>>

\* no delete_transaction is between its load and its rewrite
NoPending ==
    [active |-> FALSE, trans_id |-> <<>>,
     loaded |-> [exc |-> "none", value |-> <<>>, warnings |-> 0]]

\* str(uuid.uuid4()): a fresh identifier
uuid4(n) == <<"u">> \o NatText(n)

\* (faulty variant) a wrapper that logs the error and returns None
log_action_swallowing(func) ==
    [exc    |-> "none",
     value  |-> IF func.exc = "none" THEN func.value ELSE <<>>,
     logged |-> <<IF func.exc = "none" THEN "INFO" ELSE "ERROR">>]

\* log_action: wrapper(*args, **kwargs) around a call of func that returned
\* func.value (func.exc = "none") or raised func.exc: what the wrapper
\* returns or raises, and the entries it logs
log_action(func) ==
    IF func.exc = "none"
    THEN [exc |-> "none", value |-> func.value, logged |-> <<"INFO">>]
    ELSE [exc |-> func.exc, value |-> func.value, logged |-> <<"ERROR">>]

\* the methods decorated with @log_action (Budget.check_limit is not)
WrappedOps ==
    {"add_transaction", "get_transactions", "delete_transaction",
     "set_budget", "get_budgets", "delete_budget", "get_monthly_report",
     "get_category_report", "get_visualizations", "get_budget_status",
     "get_financial_summary"}

\* the call of op, whose body returned value (exc = "none") or raised exc
\* after `warnings` warnings, returns or raises through its wrapper
Returned(op, args, exc, value, warnings) ==
    LET func    == [exc |-> exc, value |-> value]
        wrapper == IF op \in WrappedOps THEN log_action(func)
                   ELSE [exc |-> exc, value |-> value, logged |-> <<>>]
    IN
    /\ last' = [op |-> op, args |-> args, exc |-> wrapper.exc,
                value |-> wrapper.value, warnings |-> warnings,
                func |-> func, logged |-> wrapper.logged]
    /\ prevData' = dataFile
    /\ prevBudget' = budgetFile
    /\ repeat' = (op = "delete_transaction" /\ last.op = op /\ last.args = args)
    /\ pending' = IF op = "delete_transaction" THEN NoPending ELSE pending

\* FinanceTracker.add_transaction -> TransactionManager.add_transaction
add_transaction(date, amount, category, trans_type, description, fault) ==
    LET args     == [date |-> date, amount |-> amount, category |-> category,
                     trans_type |-> trans_type, description |-> description]
        trans_id == uuid4(uuidCount + 1)
        trans    == Transaction(trans_id, date, amount, category, trans_type,
                                description)
        w        == append_row(dataFile,
                               added_row(trans_id, date, amount, category,
                                         trans_type, description),
                               fault)
    IN  IF trans.exc # "none"
        THEN /\ Returned("add_transaction", args, trans.exc, NoTransaction, 0)
             /\ UNCHANGED <<dataFile, budgetFile, uuidCount>>
        ELSE /\ uuidCount < MaxAdds
             /\ dataFile' = w.file
             /\ uuidCount' = uuidCount + 1
             /\ Returned("add_transaction", args, w.exc,
                         IF w.exc = "none" THEN trans.obj ELSE NoTransaction, 0)
             /\ UNCHANGED budgetFile

\* (faulty variant) a load that writes back what it loaded
get_transactions_rewriting(l) ==
        /\ Returned("get_transactions", <<>>, l.exc, l.value, l.warnings)
        /\ dataFile' = write_all(dataFile,
                                 <<DATA_HEADER>> \o transaction_rows(l.value),
                                 0).file
        /\ UNCHANGED <<budgetFile, uuidCount>>

\* FinanceTracker.get_transactions -> TransactionManager.load_transactions
\* (l: what self.transaction_manager.load_transactions() yields)
get_transactions(l) ==
        /\ Returned("get_transactions", <<>>, l.exc, l.value, l.warnings)
        /\ UNCHANGED <<dataFile, budgetFile, uuidCount>>

\* FinanceTracker.delete_transaction -> TransactionManager.delete_transaction
\* (l: what its first statement, self.load_transactions(), yields)
delete_transaction(l, trans_id, fault) ==
    LET args    == [trans_id |-> trans_id]
        updated == SelectSeq(l.value, LAMBDA t : t.trans_id # trans_id)
        w       == write_all(dataFile,
                             <<DATA_HEADER>> \o transaction_rows(updated),
                             fault)
    IN  IF l.exc # "none"
        THEN /\ Returned("delete_transaction", args, l.exc, FALSE, l.warnings)
             /\ UNCHANGED <<dataFile, budgetFile, uuidCount>>
        ELSE /\ dataFile' = w.file
             /\ Returned("delete_transaction", args, w.exc, w.exc = "none",
                         l.warnings)
             /\ UNCHANGED <<budgetFile, uuidCount>>

\* (faulty variant) a list instead of a dict: an existing category is not replaced
dict_always_append(acc, budgets) == acc \o budgets

RECURSIVE dict_by_category(_, _)
\* {b._category: b for b in budgets}, added to the dict acc: a key keeps the
\* place of its first insertion and takes the value of its last
dict_by_category(acc, budgets) ==
    IF budgets = <<>> THEN acc
    ELSE LET b == Head(budgets)
             next == IF \E i \in 1..Len(acc) : acc[i].category = b.category
                     THEN [i \in 1..Len(acc) |->
                             IF acc[i].category = b.category THEN b ELSE acc[i]]
                     ELSE Append(acc, b)
         IN  dict_by_category(next, Tail(budgets))

\* FinanceTracker.set_budget -> BudgetManager.set_budget
\* (l: what self.load_budgets() yields when the call reaches it)
set_budget(l, category, limit, fault) ==
    LET args    == [category |-> category, limit |-> limit]
        budget  == Budget(category, limit)
        budgets == dict_by_category(dict_by_category(<<>>, l.value),
                                    <<budget.obj>>)
        w       == write_all(budgetFile,
                             <<BUDGET_HEADER>> \o budget_rows(budgets),
                             fault)
    IN  IF budget.exc # "none"
        THEN /\ Returned("set_budget", args, budget.exc, NoBudget, 0)
             /\ UNCHANGED <<dataFile, budgetFile, uuidCount>>
        ELSE IF l.exc # "none"
        THEN /\ Returned("set_budget", args, l.exc, NoBudget, l.warnings)
             /\ UNCHANGED <<dataFile, budgetFile, uuidCount>>
        ELSE /\ budgetFile' = w.file
             /\ Returned("set_budget", args, w.exc,
                         IF w.exc = "none" THEN budget.obj ELSE NoBudget,
                         l.warnings)
             /\ UNCHANGED <<dataFile, uuidCount>>

\* FinanceTracker.get_budgets -> BudgetManager.load_budgets
\* (l: what self.budget_manager.load_budgets() yields)
get_budgets(l) ==
        /\ Returned("get_budgets", <<>>, l.exc, l.value, l.warnings)
        /\ UNCHANGED <<dataFile, budgetFile, uuidCount>>

\* FinanceTracker.delete_budget -> BudgetManager.delete_budget
\* (l: what its first statement, self.load_budgets(), yields)
delete_budget(l, category, fault) ==
    LET args    == [category |-> category]
        budgets == SelectSeq(l.value, LAMBDA b : b.category # category)
        w       == write_all(budgetFile,
                             <<BUDGET_HEADER>> \o budget_rows(budgets),
                             fault)
    IN  IF l.exc # "none"
        THEN /\ Returned("delete_budget", args, l.exc, FALSE, l.warnings)
             /\ UNCHANGED <<dataFile, budgetFile, uuidCount>>
        ELSE /\ budgetFile' = w.file
             /\ Returned("delete_budget", args, w.exc, w.exc = "none",
                         l.warnings)
             /\ UNCHANGED <<dataFile, uuidCount>>

\* (faulty variant) every transaction counted as an expense
IsAnyType(t) == t.trans_type \in {T_expense, T_income}

\* t._trans_type == 'expense'
IsExpense(t) == t.trans_type = T_expense

\* t._trans_type == 'income'
IsIncome(t) == t.trans_type = T_income

\* one entry of get_budget_status
budget_status(budget, expenses) ==
    LET st == check_limit(budget, expenses)
    IN  [category   |-> budget.category,
         limit      |-> budget.limit,
         spent      |-> st.total,
         remaining  |-> st.remaining,
         percentage |-> st.percentage,
         exceeded   |-> st.exceeded]

\* the list FinanceTracker.get_budget_status builds
budget_status_list(budgets, transactions) ==
    LET expenses == SelectSeq(transactions, IsExpense)
    IN  [i \in 1..Len(budgets) |-> budget_status(budgets[i], expenses)]

\* FinanceTracker.get_budget_status
\* (lb, lt: what load_budgets() and load_transactions() yield)
get_budget_status(lb, lt) ==
        /\ IF lb.exc # "none"
           THEN Returned("get_budget_status", <<>>, lb.exc, <<>>, lb.warnings)
           ELSE IF lt.exc # "none"
           THEN Returned("get_budget_status", <<>>, lt.exc, <<>>,
                         lb.warnings + lt.warnings)
           ELSE Returned("get_budget_status", <<>>, "none",
                         budget_status_list(lb.value, lt.value),
                         lb.warnings + lt.warnings)
        /\ UNCHANGED <<dataFile, budgetFile, uuidCount>>

NoSummary ==
    [null |-> TRUE, total_income |-> 0, total_expense |-> 0,
     net_savings |-> 0, savings_rate |-> Ratio(0, 1)]

\* (faulty variant) the savings rate taken over the expenses
financial_summary_over_expense(transactions) ==
    LET total_income  == SumAmounts(SelectSeq(transactions, IsIncome))
        total_expense == SumAmounts(SelectSeq(transactions, IsExpense))
        net_savings   == total_income - total_expense
    IN  IF transactions = <<>> THEN NoSummary
        ELSE [null          |-> FALSE,
              total_income  |-> total_income,
              total_expense |-> total_expense,
              net_savings   |-> net_savings,
              savings_rate  |-> IF total_expense > 0
                                THEN Ratio(net_savings * 100, total_expense)
                                ELSE Ratio(0, 1)]

\* the value FinanceAnalyzer.get_financial_summary returns (null: None)
financial_summary(transactions) ==
    LET total_income  == SumAmounts(SelectSeq(transactions, IsIncome))
        total_expense == SumAmounts(SelectSeq(transactions, IsExpense))
        net_savings   == total_income - total_expense
    IN  IF transactions = <<>> THEN NoSummary
        ELSE [null          |-> FALSE,
              total_income  |-> total_income,
              total_expense |-> total_expense,
              net_savings   |-> net_savings,
              savings_rate  |-> IF total_income > 0
                                THEN Ratio(net_savings * 100, total_income)
                                ELSE Ratio(0, 1)]

\* FinanceTracker.get_financial_summary -> FinanceAnalyzer.get_financial_summary
\* (l: what self.tm.load_transactions() yields)
get_financial_summary(l) ==
        /\ Returned("get_financial_summary", <<>>, l.exc,
                    IF l.exc = "none" THEN financial_summary(l.value)
                    ELSE NoSummary,
                    l.warnings)
        /\ UNCHANGED <<dataFile, budgetFile, uuidCount>>

\* a direct call of Budget.check_limit
call_check_limit(budget, transactions) ==
    /\ Returned("check_limit", [budget |-> budget, expenses |-> transactions],
                "none", check_limit(budget, transactions), 0)
    /\ UNCHANGED <<dataFile, budgetFile, uuidCount>>

(***************************************************************************)
(* The reports.  A report is the table to_csv writes to a new file under   *)
(* REPORTS_DIR, whose path the call returns: its index (one key per        *)
(* group, sorted), its columns (the types that occur, sorted, then the     *)
(* computed column) and one cell per key and column.                       *)
(***************************************************************************)
\* the characters of the inputs, in code point order
Alphabet == <<"-", ".", "/">> \o Digits \o UpperCase \o LowerCase

CharRank ==
    [c \in {Alphabet[k] : k \in 1..Len(Alphabet)} |->
        CHOOSE k \in 1..Len(Alphabet) : Alphabet[k] = c]

RECURSIVE TextLess(_, _)
\* a < b for two str
TextLess(a, b) ==
    IF b = <<>> THEN FALSE
    ELSE IF a = <<>> THEN TRUE
    ELSE IF Head(a) # Head(b) THEN CharRank[Head(a)] < CharRank[Head(b)]
    ELSE TextLess(Tail(a), Tail(b))

RECURSIVE SortedTexts(_)
\* the texts of a set in ascending order (groupby sorts its keys)
SortedTexts(S) ==
    IF S = {} THEN <<>>
    ELSE LET m == CHOOSE x \in S : \A y \in S \ {x} : TextLess(x, y)
         IN  <<m>> \o SortedTexts(S \ {m})

\* pd.to_datetime(date).to_period('M'), as to_csv prints it ("2024-01"), for
\* the dates the Transaction constructor accepted: the four digits of the
\* year and the month, padded to two digits
to_period_M(date) ==
    SubSeq(date, 1, 4) \o <<"-">>
        \o (IF MonthLen(date, 6) = 1 THEN <<"0", date[6]>> ELSE SubSeq(date, 6, 7))

S_savings == <<"s", "a", "v", "i", "n", "g", "s">>

S_net == <<"n", "e", "t">>

NoReport == [null |-> TRUE, index |-> <<>>, columns |-> <<>>, cells |-> <<>>]

\* df.groupby([keys, 'type'])['amount'].sum().unstack(fill_value=0), keys[i]
\* being the group key of transactions[i], followed by
\* data[extra] = data.get('income', 0) - data.get('expense', 0)
grouped_report(keys, transactions, extra) ==
    LET n       == Len(transactions)
        types   == {transactions[i].trans_type : i \in 1..n}
        group(k, c) ==
            {i \in 1..n : keys[i] = k /\ transactions[i].trans_type = c}
        sum(k, c) ==
            SumAmounts([i \in 1..Len(transactions) |->
                           IF i \in group(k, c) THEN transactions[i]
                           ELSE [amount |-> 0]])
        get(k, c) == IF c \in types THEN sum(k, c) ELSE 0
    IN  [null    |-> FALSE,
         index   |-> SortedTexts({keys[i] : i \in 1..n}),
         columns |-> SortedTexts(types) \o <<extra>>,
         cells   |-> [k \in {keys[i] : i \in 1..n} |->
                         [c \in types \cup {extra} |->
                             IF c = extra
                             THEN get(k, T_income) - get(k, T_expense)
                             ELSE sum(k, c)]]]

\* FinanceAnalyzer.generate_monthly_report: the report written
monthly_report(transactions) ==
    IF transactions = <<>> THEN NoReport
    ELSE grouped_report([i \in 1..Len(transactions) |->
                            to_period_M(transactions[i].date)],
                        transactions, S_savings)

\* FinanceAnalyzer.generate_category_report: the report written
category_report(transactions) ==
    IF transactions = <<>> THEN NoReport
    ELSE grouped_report([i \in 1..Len(transactions) |->
                            transactions[i].category],
                        transactions, S_net)

\* FinanceTracker.get_monthly_report -> FinanceAnalyzer.generate_monthly_report
\* (l: what self.tm.load_transactions() yields)
get_monthly_report(l) ==
        /\ Returned("get_monthly_report", <<>>, l.exc,
                    IF l.exc = "none" THEN monthly_report(l.value) ELSE NoReport,
                    l.warnings)
        /\ UNCHANGED <<dataFile, budgetFile, uuidCount>>

\* FinanceTracker.get_category_report -> FinanceAnalyzer.generate_category_report
get_category_report(l) ==
        /\ Returned("get_category_report", <<>>, l.exc,
                    IF l.exc = "none" THEN category_report(l.value) ELSE NoReport,
                    l.warnings)
        /\ UNCHANGED <<dataFile, budgetFile, uuidCount>>

\* the keys of the dict generate_plots returns: the charts it drew in memory
plots(budgets, transactions) ==
    {"monthly_trends"}
        \cup (IF \E i \in 1..Len(transactions) : IsExpense(transactions[i])
              THEN {"category_spending", "daily_spending"} ELSE {})
        \cup (IF budgets # <<>> THEN {"budget_status"} ELSE {})

\* FinanceTracker.get_visualizations -> FinanceAnalyzer.generate_plots
\* ({}: None; the budgets are loaded only when there are transactions)
get_visualizations(lb, lt) ==
        /\ IF lt.exc # "none"
           THEN Returned("get_visualizations", <<>>, lt.exc, {}, lt.warnings)
           ELSE IF lt.value = <<>>
           THEN Returned("get_visualizations", <<>>, "none", {}, lt.warnings)
           ELSE IF lb.exc # "none"
           THEN Returned("get_visualizations", <<>>, lb.exc, {},
                         lt.warnings + lb.warnings)
           ELSE Returned("get_visualizations", <<>>, "none",
                         plots(lb.value, lt.value), lt.warnings + lb.warnings)
        /\ UNCHANGED <<dataFile, budgetFile, uuidCount>>

(***************************************************************************)
(* Inputs.                                                                 *)
(***************************************************************************)
D_2024_01_15 == <<"2", "0", "2", "4", "-", "0", "1", "-", "1", "5">>

D_2024_02_01 == <<"2", "0", "2", "4", "-", "0", "2", "-", "0", "1">>

\* accepted by strptime although month and day are not zero-padded
D_2024_1_5 == <<"2", "0", "2", "4", "-", "1", "-", "5">>

D_15_01_2024 == <<"1", "5", "/", "0", "1", "/", "2", "0", "2", "4">>

\* YYYY-MM-DD in shape, but no calendar date
D_2024_02_30 == <<"2", "0", "2", "4", "-", "0", "2", "-", "3", "0">>

C_Food == <<"F", "o", "o", "d">>

C_food == <<"f", "o", "o", "d">>

C_Other == <<"O", "t", "h", "e", "r">>

T_Income == <<"I", "n", "c", "o", "m", "e">>

T_EXPENSE == <<"E", "X", "P", "E", "N", "S", "E">>

T_transfer == <<"t", "r", "a", "n", "s", "f", "e", "r">>

A_1000 == PyStr(<<"1", "0", "0", "0">>)

A_400 == PyStr(<<"4", "0", "0">>)

A_50 == PyStr(<<"5", "0">>)

A_minus5 == PyStr(<<"-", "5">>)

X_lunch == <<"l", "u", "n", "c", "h">>

AddInput(date, amount, category, trans_type, description) ==
    [date |-> date, amount |-> amount, category |-> category,
     trans_type |-> trans_type, description |-> description]

\* Food 40.0 and Food 70.0 as expenses, Other "1000" as an EXPENSE
ExpenseInputs ==
    { AddInput(D_2024_01_15, PyFloat(400), C_Food, T_expense, X_lunch),
      AddInput(D_2024_1_5, PyFloat(700), C_Food, T_expense, <<>>),
      AddInput(D_2024_02_01, A_1000, C_Other, T_EXPENSE, <<>>) }

\* Food 1000.0 as an Income
IncomeInputs ==
    { AddInput(D_2024_01_15, PyFloat(10000), C_Food, T_Income, <<>>) }

\* inputs the Transaction constructor accepts
AcceptedInputs == ExpenseInputs \cup IncomeInputs

\* inputs with one field the constructor rejects
RejectedInputs ==
    LET base == AddInput(D_2024_01_15, PyFloat(400), C_Food, T_expense, <<>>)
    IN  {[base EXCEPT !.date = d] : d \in {D_15_01_2024, D_2024_02_30}}
          \cup {[base EXCEPT !.amount = a] : a \in {PyFloat(0), A_minus5}}
          \cup {[base EXCEPT !.trans_type = T_transfer]}

AddInputs == AcceptedInputs \cup RejectedInputs

ID_x1 == <<"x", "1">>

DeleteIds == {uuid4(n) : n \in 1..MaxAdds} \cup {ID_x1}

BudgetCategories == {C_Food, C_food}

SetInput(category, limit) == [category |-> category, limit |-> limit]

\* limits the Budget constructor accepts: Food 100.0, Food "50", food 100.0
AcceptedBudgets ==
    { SetInput(C_Food, PyFloat(1000)), SetInput(C_Food, A_50),
      SetInput(C_food, PyFloat(1000)) }

\* limits it rejects
RejectedBudgets == { SetInput(C_Food, PyFloat(0)), SetInput(C_food, A_minus5) }

SetInputs == AcceptedBudgets \cup RejectedBudgets

(***************************************************************************)
(* Spec: the operations of FinanceTracker, one call at a time, from the    *)
(* files init_files() creates, without I/O errors.                         *)
(***************************************************************************)
NoCall == [op |-> "init", args |-> <<>>, exc |-> "none", value |-> <<>>,
           warnings |-> 0, func |-> [exc |-> "none", value |-> <<>>],
           logged |-> <<>>]

Init ==
    /\ dataFile = init_files(AbsentFile, DATA_HEADER)
    /\ budgetFile = init_files(AbsentFile, BUDGET_HEADER)
    /\ uuidCount = 0
    /\ last = NoCall
    /\ prevData = dataFile
    /\ prevBudget = budgetFile
    /\ repeat = FALSE
    /\ pending = NoPending

AddTransaction ==
    \E i \in AddInputs :
        add_transaction(i.date, i.amount, i.category, i.trans_type,
                        i.description, 0)

DeleteTransaction(lt) == \E id \in DeleteIds : delete_transaction(lt, id, 0)

SetBudget(lb) ==
    \E i \in SetInputs : set_budget(lb, i.category, i.limit, 0)

DeleteBudget(lb) == \E c \in BudgetCategories : delete_budget(lb, c, 0)

Next ==
    LET lt == load_transactions(dataFile)
        lb == load_budgets(budgetFile)
    IN  \/ AddTransaction
        \/ DeleteTransaction(lt)
        \/ SetBudget(lb)
        \/ DeleteBudget(lb)
        \/ get_transactions(lt)
        \/ get_budgets(lb)
        \/ get_budget_status(lb, lt)
        \/ get_financial_summary(lt)

Spec == Init /\ [][Next]_vars

(***************************************************************************)
(* SpecLedger: the reports and Budget.check_limit, computed from every     *)
(* ledger that up to MaxLedger add_transaction calls and the set_budget    *)
(* calls leave in the two files.                                           *)
(***************************************************************************)
\* food "400" as an expense
LedgerInputs ==
    AcceptedInputs \cup {AddInput(D_2024_02_01, A_400, C_food, T_expense, <<>>)}

\* the file after add_transaction was called with q[1], q[2], ...
LedgerFile(q) ==
    [exists |-> TRUE,
     rows   |-> <<DATA_HEADER>> \o
                [i \in 1..Len(q) |->
                    added_row(uuid4(i), q[i].date, q[i].amount, q[i].category,
                              q[i].trans_type, q[i].description)]]

\* the file after set_budget was called with q[1], q[2], ...
BudgetLedgerFile(q) ==
    [exists |-> TRUE,
     rows   |-> <<BUDGET_HEADER>> \o
                budget_rows(dict_by_category(<<>>,
                           [i \in 1..Len(q) |->
                               Budget(q[i].category, q[i].limit).obj]))]

SeqsUpTo(S, n) == UNION {[1..k -> S] : k \in 0..n}

InitLedger ==
    /\ \E q \in SeqsUpTo(LedgerInputs, MaxLedger) :
          /\ dataFile = LedgerFile(q)
          /\ uuidCount = Len(q)
    /\ \E q \in SeqsUpTo(AcceptedBudgets, Cardinality(BudgetCategories)) :
          budgetFile = BudgetLedgerFile(q)
    /\ last = NoCall
    /\ prevData = dataFile
    /\ prevBudget = budgetFile
    /\ repeat = FALSE
    /\ pending = NoPending

\* the Budget objects check_limit is called on directly
BudgetObjects ==
    {Budget(c, PyFloat(1000)).obj : c \in {C_Food, C_food}}
        \cup {Budget(c, PyFloat(1100)).obj : c \in {C_Food, C_Other}}

\* check_limit called with the loaded transactions of both types
CheckLimit(lt) ==
    /\ lt.exc = "none"
    /\ \E b \in BudgetObjects : call_check_limit(b, lt.value)

NextLedger ==
    LET lt == load_transactions(dataFile)
        lb == load_budgets(budgetFile)
    IN  \/ get_budget_status(lb, lt)
        \/ get_financial_summary(lt)
        \/ CheckLimit(lt)
        \/ get_monthly_report(lt)

SpecLedger == InitLedger /\ [][NextLedger]_vars

(***************************************************************************)
(* SpecRaw: the two files as they may be found on disk, holding up to       *)
(* MaxRaw records each, some of which fail validation or lack fields, and   *)
(* the calls that load and rewrite them.                                    *)
(***************************************************************************)
RawRow(id, date, amount, trans_type) ==
    <<id, date, amount, C_Food, trans_type, <<>>>>

RawRows ==
    { RawRow(ID_x1, D_2024_01_15, <<"4", "0", ".", "0">>, T_expense),
      \* valid, but not as delete_transaction rewrites it
      <<uuid4(1), D_2024_02_01, A_1000.text, C_Other, T_EXPENSE>>,
      RawRow(<<"x", "2">>, D_2024_01_15, A_minus5.text, T_expense),
      RawRow(<<"x", "3">>, D_2024_01_15, <<"a", "b", "c">>, T_expense),
      RawRow(<<"x", "4">>, D_15_01_2024, A_50.text, T_expense),
      RawRow(<<"x", "5">>, D_2024_01_15, A_50.text, T_transfer),
      \* a record cut short: amount, category and type are missing
      <<<<"x", "6">>, D_2024_01_15>> }

RawBudgetRows ==
    { <<C_Food, <<"1", "0", "0", ".", "0">>>>,
      <<C_food, A_minus5.text>>,
      <<C_Other, <<"a", "b", "c">>>>,
      \* a record cut short: limit is missing
      <<C_Other>> }

InitRaw ==
    /\ \E q \in SeqsUpTo(RawRows, MaxRaw) :
          dataFile = [exists |-> TRUE, rows |-> <<DATA_HEADER>> \o q]
    /\ \E q \in SeqsUpTo(RawBudgetRows, MaxRaw) :
          budgetFile = [exists |-> TRUE, rows |-> <<BUDGET_HEADER>> \o q]
    /\ uuidCount = 0
    /\ last = NoCall
    /\ prevData = dataFile
    /\ prevBudget = budgetFile
    /\ repeat = FALSE
    /\ pending = NoPending

NextRaw ==
    LET lt == load_transactions(dataFile)
        lb == load_budgets(budgetFile)
    IN  \/ DeleteTransaction(lt)
        \/ DeleteBudget(lb)
        \/ get_transactions(lt)
        \/ get_budgets(lb)

SpecRaw == InitRaw /\ [][NextRaw]_vars

(***************************************************************************)
(* SpecIO: the calls that write, each of which may fail with an IOError    *)
(* when it opens its file or at any row it writes.                         *)
(***************************************************************************)
\* 0: no failure; 1: open() fails; k + 1: the k-th writerow fails
Faults == 0..(MaxAdds + 1)

\* Food 40.0 as an expense and Food 1000.0 as an Income
IOInputs == {i \in AcceptedInputs : i.date = D_2024_01_15}

\* Food 100.0 and food 100.0
IOBudgets == {i \in AcceptedBudgets : i.limit = PyFloat(1000)}

AddTransactionIO ==
    \E i \in IOInputs, fault \in Faults :
        add_transaction(i.date, i.amount, i.category, i.trans_type,
                        i.description, fault)

DeleteTransactionIO(lt) ==
    \E id \in DeleteIds, fault \in Faults : delete_transaction(lt, id, fault)

SetBudgetIO(lb) ==
    \E i \in IOBudgets, fault \in Faults :
        set_budget(lb, i.category, i.limit, fault)

DeleteBudgetIO(lb) ==
    \E c \in BudgetCategories, fault \in Faults : delete_budget(lb, c, fault)

NextIO ==
    LET lt == load_transactions(dataFile)
        lb == load_budgets(budgetFile)
    IN  \/ AddTransactionIO
        \/ DeleteTransactionIO(lt)
        \/ SetBudgetIO(lb)
        \/ DeleteBudgetIO(lb)

SpecIO == Init /\ [][NextIO]_vars

(***************************************************************************)
(* SpecSession: every operation of FinanceTracker, the reports and the     *)
(* charts included, one call at a time from the files init_files()         *)
(* creates, with inputs the constructors accept.                           *)
(***************************************************************************)
\* Food 40.0 as an expense, Food 1000.0 as an Income, Other "1000" as an
\* EXPENSE of another month
SessionInputs == {i \in AcceptedInputs : i.date # D_2024_1_5}

AddTransactionSession ==
    \E i \in SessionInputs :
        add_transaction(i.date, i.amount, i.category, i.trans_type,
                        i.description, 0)

SetBudgetSession(lb) ==
    \E i \in IOBudgets : set_budget(lb, i.category, i.limit, 0)

NextSession ==
    LET lt == load_transactions(dataFile)
        lb == load_budgets(budgetFile)
    IN  \/ AddTransactionSession
        \/ DeleteTransaction(lt)
        \/ SetBudgetSession(lb)
        \/ DeleteBudget(lb)
        \/ get_transactions(lt)
        \/ get_budgets(lb)
        \/ get_budget_status(lb, lt)
        \/ get_financial_summary(lt)
        \/ get_monthly_report(lt)
        \/ get_category_report(lt)
        \/ get_visualizations(lb, lt)

SpecSession == Init /\ [][NextSession]_vars

(***************************************************************************)
(* SpecRace: a delete_transaction in two steps, its load and its rewrite,  *)
(* with the add_transaction calls of another thread between them.  Nothing *)
(* in the code keeps the two calls apart.                                  *)
(***************************************************************************)
\* (faulty variant) a rewrite from what the file holds when it is rewritten
rewrite_source_reloaded(p) == load_transactions(dataFile)

\* the list delete_transaction filters and writes: the one it loaded
rewrite_source(p) == p.loaded

\* transactions = self.load_transactions()
DeleteLoad ==
    /\ ~pending.active
    /\ \E id \in DeleteIds :
          LET l == load_transactions(dataFile)
          IN  IF l.exc # "none"
              THEN delete_transaction(l, id, 0)
              ELSE /\ pending' = [active |-> TRUE, trans_id |-> id, loaded |-> l]
                   /\ UNCHANGED <<dataFile, budgetFile, uuidCount, last,
                                  prevData, prevBudget, repeat>>

\* the rest of delete_transaction: the filter and the rewrite in mode 'w'
DeleteRewrite ==
    /\ pending.active
    /\ delete_transaction(rewrite_source(pending), pending.trans_id, 0)

NextRace ==
    \/ AddTransactionSession
    \/ DeleteLoad
    \/ DeleteRewrite
    \/ get_transactions(load_transactions(dataFile))

SpecRace == Init /\ [][NextRace]_vars

(***************************************************************************)
(* SpecAbsent: data/transactions.csv is removed while the program runs.    *)
(* init_files ran once, at import, and nothing writes the header again.    *)
(***************************************************************************)
\* the transaction file is removed from outside the program
RemoveDataFile ==
    /\ dataFile.exists
    /\ dataFile' = AbsentFile
    /\ UNCHANGED <<budgetFile, uuidCount, last, prevData, prevBudget, repeat,
                   pending>>

NextAbsent ==
    LET lt == load_transactions(dataFile)
    IN  \/ RemoveDataFile
        \/ AddTransactionSession
        \/ get_transactions(lt)
        \/ DeleteTransaction(lt)

SpecAbsent == Init /\ [][NextAbsent]_vars

(***************************************************************************)
(* What the properties speak of, defined apart from the code's operators.  *)
(***************************************************************************)
\* YYYY-MM-DD: four, two and two digits, and a date of the calendar
IsYMD(date) ==
    /\ Len(date) = 10
    /\ date[5] = "-" /\ date[8] = "-"
    /\ \A i \in {1, 2, 3, 4, 6, 7, 9, 10} : date[i] \in DigitSet
    /\ LET y == DigitsVal(SubSeq(date, 1, 4))
           m == DigitsVal(SubSeq(date, 6, 7))
           d == DigitsVal(SubSeq(date, 9, 10))
       IN  y >= 1 /\ m \in 1..12 /\ d >= 1 /\ d <= DaysInMonth(y, m)

\* the number an amount or limit argument denotes is > 0
IsPositive(x) ==
    \/ x.kind = "float" /\ x.val > 0
    \/ x.kind = "str" /\ float_str(x.text).exc = "none" /\ float_str(x.text).val > 0

\* the number an amount or limit argument denotes is <= 0
IsNonPositive(x) ==
    \/ x.kind = "float" /\ x.val <= 0
    \/ x.kind = "str" /\ float_str(x.text).exc = "none" /\ float_str(x.text).val <= 0

\* 'income' or 'expense', whatever the case of the letters
IsType(trans_type) == str_lower(trans_type) \in {T_income, T_expense}

ValidInput(a) == IsYMD(a.date) /\ IsPositive(a.amount) /\ IsType(a.trans_type)

\* the record rows of a file, the header row apart
Records(file) == IF file.rows = <<>> THEN <<>> ELSE Tail(file.rows)

Contains(seq, x) == \E i \in 1..Len(seq) : seq[i] = x

(***************************************************************************)
(* C1.  For every valid input (date YYYY-MM-DD, amount > 0, type income or *)
(* expense in any case) add_transaction succeeds, and the load_transactions*)
(* that follows returns a transaction with the id, date, amount, category,  *)
(* type and description of the Transaction add_transaction returned.       *)
(***************************************************************************)
C1_AddThenLoadRoundTrip ==
    (last.op = "add_transaction" /\ ValidInput(last.args)) =>
        /\ last.exc = "none"
        /\ load_transactions(dataFile).exc = "none"
        /\ Contains(load_transactions(dataFile).value, last.value)

\* an add whose amount is a str and whose type is upper case, after another
C1_Witness ==
    /\ last.op = "add_transaction" /\ ValidInput(last.args)
    /\ last.args.amount = A_1000 /\ last.args.trans_type = T_EXPENSE
    /\ last.value.amount = 10000 /\ last.value.trans_type = T_expense
    /\ Len(Records(dataFile)) = 2
    /\ Contains(load_transactions(dataFile).value, last.value)

(***************************************************************************)
(* C2.  add_transaction with amount <= 0, a date not in YYYY-MM-DD form or *)
(* a type that is neither income nor expense, and set_budget with          *)
(* limit <= 0, fail with a validation error and leave both files as they   *)
(* were.                                                                   *)
(***************************************************************************)
C2_RejectedCallFailsAndLeavesStores ==
    /\ ( /\ last.op = "add_transaction"
         /\ \/ IsNonPositive(last.args.amount)
            \/ ~IsYMD(last.args.date)
            \/ ~IsType(last.args.trans_type) )
       => (last.exc = "ValueError" /\ dataFile = prevData /\ budgetFile = prevBudget)
    /\ (last.op = "set_budget" /\ IsNonPositive(last.args.limit))
       => (last.exc = "ValueError" /\ dataFile = prevData /\ budgetFile = prevBudget)

(***************************************************************************)
(* C3.  The budget file holds at most one Budget per category (compared    *)
(* as exact strings); a successful set_budget(c, l) leaves exactly one     *)
(* Budget for c, with limit l, and the Budget of every other category as   *)
(* it was.                                                                 *)
(***************************************************************************)
OthersOf(budgets, c) == SelectSeq(budgets, LAMBDA b : b.category # c)

C3_OneBudgetPerCategory ==
    LET now == load_budgets(budgetFile)
        old == load_budgets(prevBudget)
    IN  /\ now.exc = "none"
        /\ Len(now.value) = Len(Records(budgetFile))
        /\ \A i, j \in 1..Len(now.value) :
              now.value[i].category = now.value[j].category => i = j
        /\ (last.op = "set_budget" /\ last.exc = "none") =>
              /\ Cardinality({i \in 1..Len(now.value) :
                    now.value[i].category = last.args.category}) = 1
              /\ \A i \in 1..Len(now.value) :
                    now.value[i].category = last.args.category =>
                        /\ float(last.args.limit).exc = "none"
                        /\ now.value[i].limit = float(last.args.limit).val
              /\ OthersOf(now.value, last.args.category)
                    = OthersOf(old.value, last.args.category)

\* set_budget(Food, "50") on a file that holds Food with limit 100.0 and food
C3_Witness ==
    /\ last.op = "set_budget" /\ last.exc = "none"
    /\ last.args = SetInput(C_Food, A_50)
    /\ Contains(load_budgets(prevBudget).value, [category |-> C_Food, limit |-> 1000])
    /\ Contains(load_budgets(prevBudget).value, [category |-> C_food, limit |-> 1000])
    /\ Contains(load_budgets(budgetFile).value, [category |-> C_Food, limit |-> 500])
    /\ Len(load_budgets(budgetFile).value) = 2

RECURSIVE SumFirst(_, _, _)
\* the sum of the amounts of those of the first n transactions that satisfy P
SumFirst(ts, P(_), n) ==
    IF n = 0 THEN 0
    ELSE SumFirst(ts, P, n - 1) + (IF P(ts[n]) THEN ts[n].amount ELSE 0)

SumWhere(ts, P(_)) == SumFirst(ts, P, Len(ts))

\* r is total / limit * 100 capped at 100
IsCappedPercentage(r, total, limit) ==
    IF total * 100 <= 100 * limit
    THEN r.num * limit = total * 100 * r.den
    ELSE r.num = 100 * r.den

\* category, type and amount of each transaction, in order
Shape(ts) ==
    [i \in 1..Len(ts) |-> <<ts[i].category, ts[i].trans_type, ts[i].amount>>]

(***************************************************************************)
(* C8.  get_financial_summary returns null when there are no transactions; *)
(* otherwise total_income and total_expense are the sums of the income and *)
(* of the expense amounts, net_savings their difference and savings_rate   *)
(* net_savings / total_income * 100, or 0 when total_income = 0 (income    *)
(* 1000 and expense 400 give 1000, 400, 600, 60).                          *)
(***************************************************************************)
C8_FinancialSummary ==
    last.op = "get_financial_summary" =>
        LET ts  == load_transactions(dataFile).value
            v   == last.value
            inc == SumWhere(ts, LAMBDA t : t.trans_type = T_income)
            exp == SumWhere(ts, LAMBDA t : t.trans_type = T_expense)
        IN  /\ last.exc = "none"
            /\ v.null <=> (ts = <<>>)
            /\ ~v.null =>
                  /\ v.total_income = inc
                  /\ v.total_expense = exp
                  /\ v.net_savings = inc - exp
                  /\ v.savings_rate.den # 0
                  /\ IF inc = 0
                     THEN v.savings_rate.num = 0
                     ELSE v.savings_rate = Ratio((inc - exp) * 100, inc)
            /\ (inc = 10000 /\ exp = 4000) =>
                  /\ v.total_income = 10000 /\ v.total_expense = 4000
                  /\ v.net_savings = 6000
                  /\ v.savings_rate.num = 60 * v.savings_rate.den

\* the summary of a ledger of one income of 1000 and one expense of 400
C8_Witness ==
    /\ last.op = "get_financial_summary"
    /\ Shape(load_transactions(dataFile).value)
         = << <<C_Food, T_income, 10000>>, <<C_food, T_expense, 4000>> >>
    /\ last.value.net_savings = 6000
    /\ RatioEq(last.value.savings_rate, Ratio(60, 1))

(***************************************************************************)
(* C9.  check_limit of a Budget with limit > 0 returns total = the sum of  *)
(* the amounts of the given transactions of exactly the budget's category, *)
(* remaining = max(0, limit - total), percentage = min(100, total / limit  *)
(* * 100) and exceeded = (total > limit); so remaining >= 0, 0 <=          *)
(* percentage <= 100, and exceeded implies remaining = 0 and percentage =  *)
(* 100.  The call changes neither file.                                    *)
(***************************************************************************)
C9_CheckLimit ==
    last.op = "check_limit" =>
        LET b     == last.args.budget
            ts    == last.args.expenses
            r     == last.value
            total == SumWhere(ts, LAMBDA t : t.category = b.category)
        IN  /\ b.limit > 0
            /\ r.total = total
            /\ r.remaining = (IF b.limit - total >= 0 THEN b.limit - total ELSE 0)
            /\ r.percentage.den > 0
            /\ IsCappedPercentage(r.percentage, total, b.limit)
            /\ r.exceeded = (total > b.limit)
            /\ r.remaining >= 0
            /\ r.percentage.num >= 0
            /\ r.percentage.num <= 100 * r.percentage.den
            /\ r.exceeded =>
                  (r.remaining = 0 /\ r.percentage.num = 100 * r.percentage.den)
            /\ dataFile = prevData /\ budgetFile = prevBudget

\* Food/100.0 against Food 40.0, an Income in Food and Food 70.0
C9_Witness ==
    /\ last.op = "check_limit"
    /\ last.args.budget = [category |-> C_Food, limit |-> 1000]
    /\ Shape(last.args.expenses)
         = << <<C_Food, T_expense, 400>>, <<C_Food, T_income, 10000>>,
              <<C_Food, T_expense, 700>> >>
    /\ last.value.exceeded /\ last.value.total = 11100

(***************************************************************************)
(* C10.  get_budget_status returns one entry per stored Budget, in stored  *)
(* order (none when there are no budgets); an entry's spent is the sum of  *)
(* the expense transactions of the budget's category only: incomes of the  *)
(* category and expenses of other categories do not count (Food/100 with   *)
(* expenses Food 40, Food 70, Other 1000: spent 110, remaining 0,          *)
(* percentage 100, exceeded).                                              *)
(***************************************************************************)
C10_BudgetStatus ==
    last.op = "get_budget_status" =>
        LET bs == load_budgets(budgetFile).value
            ts == load_transactions(dataFile).value
            v  == last.value
        IN  /\ last.exc = "none"
            /\ Len(v) = Len(bs)
            /\ Len(v) = Len(Records(budgetFile))
            /\ \A i \in 1..Len(v) :
                  LET spent == SumWhere(ts, LAMBDA t :
                                   /\ t.trans_type = T_expense
                                   /\ t.category = bs[i].category)
                  IN  /\ v[i].category = Records(budgetFile)[i][1]
                      /\ v[i].category = bs[i].category
                      /\ v[i].limit = bs[i].limit
                      /\ v[i].spent = spent
                      /\ v[i].remaining = (IF v[i].limit - spent >= 0
                                           THEN v[i].limit - spent ELSE 0)
                      /\ v[i].percentage.den > 0
                      /\ IsCappedPercentage(v[i].percentage, spent, v[i].limit)
                      /\ v[i].exceeded = (spent > v[i].limit)
            /\ ( /\ bs = <<[category |-> C_Food, limit |-> 1000]>>
                 /\ Shape(ts) = << <<C_Food, T_expense, 400>>,
                                   <<C_Food, T_expense, 700>>,
                                   <<C_Other, T_expense, 10000>> >> )
               => /\ Len(v) = 1
                  /\ v[1].spent = 1100 /\ v[1].remaining = 0
                  /\ v[1].percentage.num = 100 * v[1].percentage.den
                  /\ v[1].exceeded

\* the status of Food/100.0 with expenses Food 40, Food 70 and Other 1000
C10_Witness ==
    /\ last.op = "get_budget_status" /\ last.exc = "none"
    /\ load_budgets(budgetFile).value = <<[category |-> C_Food, limit |-> 1000]>>
    /\ Shape(load_transactions(dataFile).value)
         = << <<C_Food, T_expense, 400>>, <<C_Food, T_expense, 700>>,
              <<C_Other, T_expense, 10000>> >>
    /\ Len(last.value) = 1 /\ last.value[1].spent = 1100
    /\ last.value[1].exceeded

\* the ids of the records of a file, in stored order
StoredIds(file) == [i \in 1..Len(Records(file)) |-> Records(file)[i][1]]

(***************************************************************************)
(* C4.  Whatever the transaction file holds, a delete_transaction(id) that *)
(* follows a delete_transaction of the same id returns true and leaves the *)
(* file exactly as the first call left it.                                 *)
(***************************************************************************)
C4_DeleteTwiceIdempotent ==
    (last.op = "delete_transaction" /\ repeat) =>
        (last.exc = "none" /\ last.value = TRUE /\ dataFile = prevData)

(***************************************************************************)
(* C5.  delete_transaction(id) with an id that no stored record has        *)
(* returns true, and every record stored before the call, records that     *)
(* fail validation included, is stored after it.                           *)
(***************************************************************************)
C5_DeleteAbsentIdIsNoOp ==
    (last.op = "delete_transaction"
        /\ ~Contains(StoredIds(prevData), last.args.trans_id)) =>
        /\ last.exc = "none" /\ last.value = TRUE
        /\ StoredIds(dataFile) = StoredIds(prevData)

\* the record has every field Transaction needs and passes its validation
RecordIsValid(r) ==
    /\ Len(r) >= 5
    /\ Transaction_validate_inputs(PyStr(r[3]), r[2], r[5]) = "none"

\* the record has both fields of a Budget and passes its validation
BudgetRecordIsValid(r) ==
    /\ Len(r) >= 2
    /\ Budget_validate_inputs(PyStr(r[2])) = "none"

(***************************************************************************)
(* C6.  load_transactions and load_budgets never abort because of a bad    *)
(* record: whatever the records (non-positive or non-numeric amount or     *)
(* limit, malformed date, unknown type, missing field), the load returns   *)
(* the records that pass validation, in stored order, and emits one        *)
(* warning for each record it skips.                                       *)
(***************************************************************************)
C6_LoadSkipsBadRecords ==
    /\ last.op = "get_transactions" =>
          LET valid == SelectSeq(Records(dataFile), RecordIsValid)
          IN  /\ last.exc = "none"
              /\ [i \in 1..Len(last.value) |-> last.value[i].trans_id]
                   = [i \in 1..Len(valid) |-> valid[i][1]]
              /\ last.warnings = Len(Records(dataFile)) - Len(valid)
    /\ last.op = "get_budgets" =>
          LET valid == SelectSeq(Records(budgetFile), BudgetRecordIsValid)
          IN  /\ last.exc = "none"
              /\ [i \in 1..Len(last.value) |-> last.value[i].category]
                   = [i \in 1..Len(valid) |-> valid[i][1]]
              /\ last.warnings = Len(Records(budgetFile)) - Len(valid)

(***************************************************************************)
(* C7.  When add_transaction, delete_transaction, set_budget or            *)
(* delete_budget fails with an I/O error, at open() or at any row it       *)
(* writes, both files hold exactly the records they held before the call.  *)
(***************************************************************************)
C7_IOErrorLeavesStores ==
    (last.op \in {"add_transaction", "delete_transaction",
                  "set_budget", "delete_budget"}
        /\ last.exc = "IOError") =>
        /\ load_transactions(dataFile).value = load_transactions(prevData).value
        /\ load_budgets(budgetFile).value = load_budgets(prevBudget).value

\* the place of the first "-" of a text, Len + 1 if it has none
FirstDash(t) ==
    IF \E i \in 1..Len(t) : t[i] = "-"
    THEN CHOOSE i \in 1..Len(t) : t[i] = "-" /\ \A j \in 1..(i - 1) : t[j] # "-"
    ELSE Len(t) + 1

\* the year and the month a date or a month label starts with
YearMonth(t) ==
    LET i    == FirstDash(t)
        rest == SubSeq(t, i + 1, Len(t))
    IN  <<DigitsVal(SubSeq(t, 1, i - 1)),
          DigitsVal(SubSeq(rest, 1, FirstDash(rest) - 1))>>

(***************************************************************************)
(* C11.  generate_monthly_report returns null when there are no            *)
(* transactions; otherwise its report has one row per year-month of the    *)
(* transactions' dates, whatever the day (2024-01-15 under 2024-01,        *)
(* 2024-02-01 under 2024-02), and a row gives the summed income and the    *)
(* summed expense of its month, 0 for a type without entries in the month, *)
(* and savings = income - expense.                                         *)
(***************************************************************************)
C11_MonthlyReport ==
    last.op = "get_monthly_report" =>
        LET ts == load_transactions(dataFile).value
            v  == last.value
            months == {YearMonth(ts[i].date) : i \in 1..Len(ts)}
        IN  /\ last.exc = "none"
            /\ v.null <=> (ts = <<>>)
            /\ ~v.null =>
                  /\ {YearMonth(v.index[i]) : i \in 1..Len(v.index)} = months
                  /\ Len(v.index) = Cardinality(months)
                  /\ \A i \in 1..Len(v.index) :
                        LET row == v.cells[v.index[i]]
                            inc == SumWhere(ts, LAMBDA t :
                                      /\ t.trans_type = T_income
                                      /\ YearMonth(t.date) = YearMonth(v.index[i]))
                            exp == SumWhere(ts, LAMBDA t :
                                      /\ t.trans_type = T_expense
                                      /\ YearMonth(t.date) = YearMonth(v.index[i]))
                        IN  /\ T_income \in DOMAIN row /\ row[T_income] = inc
                            /\ T_expense \in DOMAIN row /\ row[T_expense] = exp
                            /\ S_savings \in DOMAIN row
                            /\ row[S_savings] = inc - exp

\* the calls that read: the loads, the status, the summary, the reports and
\* the charts
ReadOps ==
    {"get_transactions", "get_budgets", "get_budget_status",
     "get_financial_summary", "get_monthly_report", "get_category_report",
     "get_visualizations"}

(***************************************************************************)
(* C12.  In every reachable state, a call of get_financial_summary,        *)
(* generate_monthly_report, generate_category_report, generate_plots,      *)
(* get_budget_status, load_transactions or load_budgets leaves the         *)
(* transaction file and the budget file exactly as they were.              *)
(***************************************************************************)
C12_ReadsLeaveStores ==
    last.op \in ReadOps => (dataFile = prevData /\ budgetFile = prevBudget)

\* a category report over two stored transactions, a Budget being stored
C12_Witness ==
    /\ last.op = "get_category_report" /\ ~last.value.null
    /\ Len(Records(dataFile)) = 2 /\ Len(Records(budgetFile)) = 1
    /\ dataFile = prevData /\ budgetFile = prevBudget

(***************************************************************************)
(* C13.  log_action is transparent: a wrapped call returns the value its   *)
(* operation returned, or raises the error its operation raised, and the   *)
(* wrapper adds exactly one log entry, an info entry on success and an     *)
(* error entry on failure.                                                 *)
(***************************************************************************)
C13_LogActionTransparent ==
    last.op \in WrappedOps =>
        /\ last.exc = last.func.exc
        /\ last.value = last.func.value
        /\ last.logged = <<IF last.func.exc = "none" THEN "INFO" ELSE "ERROR">>

\* a set_budget whose Budget constructor raised ValueError
C13_Witness ==
    /\ last.op = "set_budget" /\ last.func.exc = "ValueError"
    /\ last.exc = "ValueError" /\ last.logged = <<"ERROR">>
    /\ budgetFile = prevBudget

\* the transactions of the file that the pending delete_transaction did not
\* load: those appended since
AppendedSince ==
    LET now == load_transactions(dataFile).value
    IN  SelectSeq(now, LAMBDA t : ~Contains(pending.loaded.value, t))

(***************************************************************************)
(* C14.  Overlapping calls are not kept apart and the last full rewrite    *)
(* wins: an add_transaction that runs between the load and the rewrite of  *)
(* a delete_transaction returns its Transaction, and when the delete has   *)
(* completed too (returning true) the file holds what the delete loaded,   *)
(* less the deleted id, so the added transaction is absent.                *)
(***************************************************************************)
C14_LastRewriteWins ==
    [][ /\ (pending.active /\ last'.op = "add_transaction"
               /\ IsPositive(last'.args.amount))
           => /\ last'.exc = "none"
              /\ Contains(load_transactions(dataFile').value, last'.value)
              /\ pending'.active
        /\ (pending.active /\ ~pending'.active)
           => /\ last'.op = "delete_transaction"
              /\ last'.exc = "none" /\ last'.value = TRUE
              /\ load_transactions(dataFile').value
                   = SelectSeq(pending.loaded.value,
                               LAMBDA t : t.trans_id # pending.trans_id)
              /\ \A i \in 1..Len(AppendedSince) :
                    ~Contains(load_transactions(dataFile').value,
                              AppendedSince[i])
      ]_vars

\* delete_transaction("x1") has completed on a file that held the one
\* transaction added so far, u1, and the file holds no transaction
C14_Witness ==
    /\ last.op = "delete_transaction" /\ last.args.trans_id = ID_x1
    /\ last.exc = "none" /\ last.value = TRUE
    /\ uuidCount = 1
    /\ StoredIds(prevData) = <<uuid4(1)>>
    /\ Records(dataFile) = <<>>

\* the ids are handed out in the order of the add_transaction calls: id
\* follows ib in that order
AddedBefore(ia, ib) ==
    \E a, b \in 1..uuidCount : a < b /\ ia = uuid4(a) /\ ib = uuid4(b)

(***************************************************************************)
(* C15.  From the initialised, empty store and through any sequential run  *)
(* of successful add_transaction and delete_transaction calls, with budget *)
(* and report calls between them, load_transactions returns exactly the    *)
(* transactions added and not deleted since: empty at first, the added     *)
(* Transaction appended by an add, those of the deleted id removed by a    *)
(* delete, unchanged by any other call; their ids are pairwise distinct    *)
(* and they stand in the order of the adds.                                *)
(***************************************************************************)
C15_LoadIsAddedMinusDeleted ==
    LET l      == load_transactions(dataFile)
        now    == l.value
        before == load_transactions(prevData).value
    IN  /\ l.exc = "none" /\ l.warnings = 0
        /\ last.exc = "none"
        /\ last.op = "init" => now = <<>>
        /\ last.op = "add_transaction" => now = Append(before, last.value)
        /\ last.op = "delete_transaction"
             => now = SelectSeq(before,
                                LAMBDA t : t.trans_id # last.args.trans_id)
        /\ last.op \notin {"init", "add_transaction", "delete_transaction"}
             => now = before
        /\ \A i, j \in 1..Len(now) :
              i < j => AddedBefore(now[i].trans_id, now[j].trans_id)

\* u1 and u2 were added, a Budget was set, and delete_transaction("u1") has
\* left u2 alone
C15_Witness ==
    /\ last.op = "delete_transaction" /\ last.args.trans_id = uuid4(1)
    /\ last.exc = "none"
    /\ uuidCount = 2
    /\ StoredIds(prevData) = <<uuid4(1), uuid4(2)>>
    /\ StoredIds(dataFile) = <<uuid4(2)>>
    /\ Len(Records(budgetFile)) = 1

\* the transaction file is absent, or was absent when the rows it holds
\* began to be written: it does not start with the header of init_files
LacksHeader(file) ==
    \/ ~file.exists
    \/ file.rows = <<>>
    \/ Head(file.rows) # DATA_HEADER

(***************************************************************************)
(* C16.  When the transaction file is absent, having been removed after    *)
(* init_files, load_transactions returns the empty list and raises         *)
(* nothing; and after an add_transaction of valid input, the first since   *)
(* the removal or a later one, load_transactions returns a list that       *)
(* contains the added Transaction.                                         *)
(***************************************************************************)
C16_AbsentFileThenAdd ==
    LET l == load_transactions(dataFile)
    IN  /\ ~dataFile.exists => (l.exc = "none" /\ l.value = <<>>)
        /\ (last.op = "add_transaction" /\ last.exc = "none"
               /\ LacksHeader(prevData) /\ dataFile.exists)
           => (l.exc = "none" /\ Contains(l.value, last.value))

=============================================================================
